---- MODULE Spec2Model ----
(***************************************************************************)
(* Model of compare-aspaths.py: a one-shot command line client that        *)
(* validates a target prefix, resolves a "then" and a "now" timestamp,     *)
(* fetches the BGP state for both from RIPEstat and prints the AS-paths    *)
(* that differ.                                                            *)
(*                                                                         *)
(* Time is counted in whole hours since local midnight of the day the run  *)
(* starts (day 0).  A datetime is an integer number of hours, a date is    *)
(* the hour of its midnight.                                               *)
(***************************************************************************)
EXTENDS Integers, Sequences, FiniteSets, TLC

VARIABLES
    pc,          \* position of the script in the __main__ block
    args,        \* args[0] of parse_known_args: [n, target]
    clock,       \* wall clock at the last read (hours since midnight of day 0)
    now,         \* formatted "now" timestamp (line 173)
    then,        \* formatted "then" timestamp (line 174)
    today,       \* date.today() as read by ris_get_dump_times (hour of its midnight)
    times,       \* local of ris_get_last_dump_datetime: the candidate dump times
    dt,          \* local of ris_get_last_dump_datetime: the target datetime
    then_res,    \* result of the first ris_get_bgp_state
    now_res,     \* result of the second ris_get_bgp_state
    requests,    \* every URL handed to the HTTP client, in order
    inflight,    \* URLs sent whose response has not returned yet
    stdout,      \* lines printed to standard output
    stderr,      \* what was written to standard error
    exception,   \* the uncaught exception that ended the run, or "none"
    exit_code    \* process exit status, -1 while the script runs

vars == <<pc, args, clock, now, then, today, times, dt, then_res, now_res,
          requests, inflight, stdout, stderr, exception, exit_code>>

----------------------------------------------------------------------------
(* Program constants *)

RIPE_RIS_INTERVAL == 8

RIPE_RIS_DEFAULT_N_DUMPS_BACK == 3

HOURS_PER_DAY == 24

RIPE_STAT_BASE_URL == "https://stat.ripe.net/data/"

VALID_RESP_CODE == {200}

\* os.path.basename(__file__)
SourceApp == "compare-aspaths.py"

\* width of the two fields of the "{: >35} --> {: >35}" report line
FieldWidth == 35

----------------------------------------------------------------------------
(* Bounds and input sets *)

\* largest lookback count given with -n
MaxN == 4

\* records in one bgp_state list when the comparison is checked on its own
MaxRecs == 2

\* records in one bgp_state list of a response in the end-to-end run
MaxFlowRecs == 1

\* longest AS-path handed to lists_equal when it is checked on its own
MaxPathLen == 3

\* -n takes any integer: argparse type=int has no positivity check
NInputs == (0 .. MaxN) \cup {-1}

TargetInputs ==
    { "193.0.14.0/24", "2001:db8::/32", "193.0.14.0", "2001:db8::",
      "not-an-ip/24", "193.0.14.129/24" }

\* local time of day at which the run starts
Hours == 0 .. (HOURS_PER_DAY - 1)

\* hours that pass between two consecutive reads of the clock
Drifts == {0, 1}

StatusCodes == {200, 404, 500}

SourceIds == {1, 2}

ASNs == {100, 200, 300}

Paths == { <<100, 200, 300>>, <<100, 250, 300>>, <<100, 200>> }

FlowSourceIds == {1}

FlowPaths == { <<100, 200, 300>>, <<100, 250, 300>> }

RECURSIVE SeqsUpTo(_, _)
SeqsUpTo(S, k) ==
    IF k = 0 THEN { <<>> }
    ELSE LET shorter == SeqsUpTo(S, k - 1)
         IN  shorter \cup { Append(s, e) : s \in shorter, e \in S }

AllPaths == SeqsUpTo(ASNs, MaxPathLen)

StateRecords(ids, ps) == [source_id : ids, path : ps]

\* what one GET of the end-to-end run may carry in data.bgp_state
FlowStates == SeqsUpTo(StateRecords(FlowSourceIds, FlowPaths), MaxFlowRecs)

----------------------------------------------------------------------------
(* Values *)

None == [kind |-> "None"]

Unset == [kind |-> "unset"]

\* the parsed JSON body: only data.bgp_state[] is consumed
Json(bgp_state) == [kind |-> "json", data |-> [bgp_state |-> bgp_state]]

----------------------------------------------------------------------------
(* RIPEstat client *)

QueryString(method, params) ==
    LET params_str == "sourceapp=" \o SourceApp
    IN  IF method # "get" THEN params_str
        ELSE params_str \o "&resource=" \o params.resource
                        \o "&timestamp=" \o params.timestamp

Url(datacall, qs) == RIPE_STAT_BASE_URL \o datacall \o "/data.json?" \o qs

Response(res) ==
    IF res.status_code \in VALID_RESP_CODE THEN Json(res.json) ELSE None

\* what the HTTP client may hand back for one GET
HttpResponses(bodies) ==
    { [status_code |-> 200, json |-> b] : b \in bodies }
        \cup { [status_code |-> s, json |-> <<>>] : s \in StatusCodes \ {200} }

BgpStateUrl(resource, timestamp) ==
    Url("bgp-state", QueryString("get", [resource |-> resource, timestamp |-> timestamp]))

----------------------------------------------------------------------------
(* Timestamp resolution *)

\* rrule(HOURLY, interval=..., dtstart=..., count=...): count <= 0 yields nothing
RRule(interval, dtstart, count) ==
    [k \in 1 .. count |-> dtstart + interval * (k - 1)]

\* variant: one candidate per dump back instead of a day's worth
ris_get_dump_times_OnePerN(n, date_today) ==
    RRule(RIPE_RIS_INTERVAL, date_today, n)

ris_get_dump_times(n, date_today) ==
    LET n_dumps_per_day == HOURS_PER_DAY \div RIPE_RIS_INTERVAL
    IN  RRule(RIPE_RIS_INTERVAL, date_today, n_dumps_per_day * n)

\* bisect.bisect is bisect_right; the result is a 0-based insertion point
RECURSIVE BisectLoop(_, _, _, _)
BisectLoop(a, x, lo, hi) ==
    IF lo < hi
    THEN LET mid == (lo + hi) \div 2
         IN  IF x < a[mid + 1] THEN BisectLoop(a, x, lo, mid)
             ELSE BisectLoop(a, x, mid + 1, hi)
    ELSE lo

\* variant: bisect_left, the insertion point before equal elements
bisect_left(a, x) == Cardinality({ i \in 1 .. Len(a) : a[i] < x })

bisect(a, x) == BisectLoop(a, x, 0, Len(a))

\* variant: the timedelta leaves out the lookback count
TargetDt_OneInterval(n, datetime_now) == datetime_now - RIPE_RIS_INTERVAL

TargetDt(n, datetime_now) == datetime_now - RIPE_RIS_INTERVAL * n

\* date.today(): the midnight that starts the day of the clock reading
DateOf(t) == (t \div HOURS_PER_DAY) * HOURS_PER_DAY

Pad2(k) == IF k < 10 THEN "0" \o ToString(k) ELSE ToString(k)

\* strftime("%Y-%m-%dT%H:%M"); the date is written as the day's offset from day 0
ris_format_timestamp(t) ==
    "day" \o ToString(t \div HOURS_PER_DAY) \o "T" \o Pad2(t % HOURS_PER_DAY) \o ":00"

----------------------------------------------------------------------------
(* Comparison *)

NumpyAll(arr) == \A i \in DOMAIN arr : arr[i]

\* variant: compares the values held, not their positions
lists_equal_Unordered(a, b) ==
    IF Len(a) # Len(b) THEN FALSE
    ELSE { a[i] : i \in 1 .. Len(a) } = { b[i] : i \in 1 .. Len(b) }

lists_equal(a, b) ==
    IF Len(a) # Len(b) THEN FALSE
    ELSE NumpyAll([i \in 1 .. Len(a) |-> a[i] = b[i]])

\* a dict: keys in insertion order, a later assignment replaces the value
EmptyDict == [keys |-> <<>>, val |-> <<>>]

DictHas(d, k) == \E i \in 1 .. Len(d.keys) : d.keys[i] = k

DictGet(d, k) == d.val[CHOOSE i \in 1 .. Len(d.keys) : d.keys[i] = k]

DictSet(d, k, v) ==
    IF DictHas(d, k)
    THEN [d EXCEPT !.val[CHOOSE i \in 1 .. Len(d.keys) : d.keys[i] = k] = v]
    ELSE [keys |-> Append(d.keys, k), val |-> Append(d.val, v)]

RECURSIVE PathsBySource(_, _)
PathsBySource(bgp_state, d) ==
    IF bgp_state = <<>> THEN d
    ELSE PathsBySource(Tail(bgp_state),
                       DictSet(d, Head(bgp_state).source_id, Head(bgp_state).path))

RECURSIVE JoinPath(_)
JoinPath(path) ==
    IF path = <<>> THEN ""
    ELSE IF Len(path) = 1 THEN ToString(path[1])
    ELSE ToString(path[1]) \o " " \o JoinPath(Tail(path))

RECURSIVE Spaces(_)
Spaces(k) == IF k <= 0 THEN "" ELSE " " \o Spaces(k - 1)

RightJustify(s, width) == Spaces(width - Len(s)) \o s

FormatLine(path, now_path) ==
    RightJustify(JoinPath(path), FieldWidth) \o " --> "
        \o RightJustify(JoinPath(now_path), FieldWidth)

\* variant: a source missing from now is reported against an empty path
RECURSIVE ReportLines_NoSkip(_, _, _)
ReportLines_NoSkip(then_paths, now_paths, i) ==
    IF i > Len(then_paths.keys) THEN <<>>
    ELSE LET source_id == then_paths.keys[i]
             path      == then_paths.val[i]
             now_path  == IF DictHas(now_paths, source_id)
                          THEN DictGet(now_paths, source_id) ELSE <<>>
             rest      == ReportLines_NoSkip(then_paths, now_paths, i + 1)
         IN  IF ~lists_equal(path, now_path)
             THEN <<FormatLine(path, now_path)>> \o rest
             ELSE rest

RECURSIVE ReportLines(_, _, _)
ReportLines(then_paths, now_paths, i) ==
    IF i > Len(then_paths.keys) THEN <<>>
    ELSE LET source_id == then_paths.keys[i]
             path      == then_paths.val[i]
             rest      == ReportLines(then_paths, now_paths, i + 1)
         IN  IF ~DictHas(now_paths, source_id) THEN rest
             ELSE IF ~lists_equal(path, DictGet(now_paths, source_id))
                  THEN <<FormatLine(path, DictGet(now_paths, source_id))>> \o rest
                  ELSE rest

\* the lines ris_compare_aspaths prints for two results that hold data
ris_compare_aspaths(then_r, now_r) ==
    ReportLines(PathsBySource(then_r.data.bgp_state, EmptyDict),
                PathsBySource(now_r.data.bgp_state, EmptyDict), 1)

----------------------------------------------------------------------------
(* Target validation *)

Contains(s, c) == \E i \in 1 .. Len(s) : SubSeq(s, i, i) = c

\* ipaddress.IPv4Network(target) does not raise ValueError
IPv4NetworkParses(target) == target \in { "193.0.14.0/24", "193.0.14.0" }

\* ipaddress.IPv6Network(target) does not raise ValueError
IPv6NetworkParses(target) == target \in { "2001:db8::/32", "2001:db8::" }

\* variant: the '/' test is left out
validate_target_NoSlashTest(target) ==
    IF Contains(target, ":") THEN IPv6NetworkParses(target)
    ELSE IPv4NetworkParses(target)

validate_target(target) ==
    IF ~Contains(target, "/") THEN FALSE
    ELSE IF Contains(target, ":") THEN IPv6NetworkParses(target)
    ELSE IPv4NetworkParses(target)

----------------------------------------------------------------------------
(* The __main__ block, one action per step *)

Running == exit_code = -1

\* an uncaught exception: traceback on standard error, exit status 1
Raise(exc) ==
    /\ exception' = exc
    /\ stderr' = Append(stderr, "traceback")
    /\ exit_code' = 1
    /\ pc' = "exited"

\* lines 168-170
Validate ==
    /\ pc = "validate"
    /\ IF validate_target(args.target)
       THEN /\ pc' = "timestamps"
            /\ UNCHANGED <<stderr, exit_code>>
       ELSE /\ stderr' = Append(stderr, "help")
            /\ exit_code' = 1
            /\ pc' = "exited"
    /\ UNCHANGED <<args, clock, now, then, today, times, dt, then_res, now_res,
                   requests, inflight, stdout, exception>>

\* lines 173-174: datetime.now(), then date.today() and datetime.now() again
\* inside ris_get_last_dump_datetime; the clock may move on between the reads
ResolveTimestamps ==
    /\ pc = "timestamps"
    /\ \E d1 \in Drifts, d2 \in Drifts :
          LET t_now1  == clock
              t_today == clock + d1
              t_now2  == clock + d1 + d2
              tms     == ris_get_dump_times(args.n, DateOf(t_today))
              target  == TargetDt(args.n, t_now2)
              i       == bisect(tms, target)
          IN  /\ clock' = t_now2
              /\ now' = ris_format_timestamp(t_now1)
              /\ today' = DateOf(t_today)
              /\ times' = tms
              /\ dt' = target
              /\ IF i < Len(tms)
                 THEN /\ then' = ris_format_timestamp(tms[i + 1])
                      /\ pc' = "send_then"
                      /\ UNCHANGED <<exception, stderr, exit_code>>
                 ELSE /\ Raise("IndexError")
                      /\ UNCHANGED then
    /\ UNCHANGED <<args, then_res, now_res, requests, inflight, stdout>>

\* line 177, up to the blocking GET
SendThen ==
    /\ pc = "send_then"
    /\ requests' = Append(requests, BgpStateUrl(args.target, then))
    /\ inflight' = Append(inflight, BgpStateUrl(args.target, then))
    /\ pc' = "recv_then"
    /\ UNCHANGED <<args, clock, now, then, today, times, dt, then_res, now_res,
                   stdout, stderr, exception, exit_code>>

\* variant: a response outside VALID_RESP_CODE sends the request again
RecvThen_Retry ==
    /\ pc = "recv_then"
    /\ \E res \in HttpResponses(FlowStates) :
          /\ then_res' = Response(res)
          /\ pc' = IF res.status_code \in VALID_RESP_CODE THEN "send_now" ELSE "send_then"
    /\ inflight' = Tail(inflight)
    /\ UNCHANGED <<args, clock, now, then, today, times, dt, now_res,
                   requests, stdout, stderr, exception, exit_code>>

\* line 177, the GET returns
RecvThen ==
    /\ pc = "recv_then"
    /\ \E res \in HttpResponses(FlowStates) :
          then_res' = Response(res)
    /\ inflight' = Tail(inflight)
    /\ pc' = "send_now"
    /\ UNCHANGED <<args, clock, now, then, today, times, dt, now_res,
                   requests, stdout, stderr, exception, exit_code>>

\* line 178, up to the blocking GET
SendNow ==
    /\ pc = "send_now"
    /\ requests' = Append(requests, BgpStateUrl(args.target, now))
    /\ inflight' = Append(inflight, BgpStateUrl(args.target, now))
    /\ pc' = "recv_now"
    /\ UNCHANGED <<args, clock, now, then, today, times, dt, then_res, now_res,
                   stdout, stderr, exception, exit_code>>

\* line 178, the GET returns
RecvNow ==
    /\ pc = "recv_now"
    /\ \E res \in HttpResponses(FlowStates) :
          now_res' = Response(res)
    /\ inflight' = Tail(inflight)
    /\ pc' = "compare"
    /\ UNCHANGED <<args, clock, now, then, today, times, dt, then_res,
                   requests, stdout, stderr, exception, exit_code>>

\* lines 181-182: then['data'] and now['data'] subscript the results, None included
Compare ==
    /\ pc = "compare"
    /\ IF then_res = None \/ now_res = None
       THEN /\ Raise("TypeError")
            /\ UNCHANGED stdout
       ELSE /\ stdout' = stdout \o ris_compare_aspaths(then_res, now_res)
            /\ exit_code' = 0
            /\ pc' = "exited"
            /\ UNCHANGED <<stderr, exception>>
    /\ UNCHANGED <<args, clock, now, then, today, times, dt, then_res, now_res,
                   requests, inflight>>

----------------------------------------------------------------------------
(* Specifications *)

Fresh ==
    /\ now = "" /\ then = "" /\ today = 0 /\ times = <<>> /\ dt = 0
    /\ then_res = Unset /\ now_res = Unset
    /\ requests = <<>> /\ inflight = <<>>
    /\ stdout = <<>> /\ stderr = <<>>
    /\ exception = "none" /\ exit_code = -1

\* the script right after parse_known_args
Init ==
    /\ pc = "validate"
    /\ args \in [n : NInputs, target : TargetInputs]
    /\ clock \in Hours
    /\ Fresh

Next ==
    \/ Validate
    \/ ResolveTimestamps
    \/ SendThen
    \/ RecvThen
    \/ SendNow
    \/ RecvNow
    \/ Compare

Spec == Init /\ [][Next]_vars

\* the script about to call ris_compare_aspaths, after a default run at 17:00
AtCompare ==
    /\ pc = "compare"
    /\ args = [n |-> RIPE_RIS_DEFAULT_N_DUMPS_BACK, target |-> "193.0.14.0/24"]
    /\ clock = 17
    /\ now = ris_format_timestamp(17)
    /\ today = 0
    /\ times = ris_get_dump_times(RIPE_RIS_DEFAULT_N_DUMPS_BACK, 0)
    /\ dt = TargetDt(RIPE_RIS_DEFAULT_N_DUMPS_BACK, 17)
    /\ then = ris_format_timestamp(0)
    /\ requests = << BgpStateUrl("193.0.14.0/24", ris_format_timestamp(0)),
                     BgpStateUrl("193.0.14.0/24", ris_format_timestamp(17)) >>
    /\ inflight = <<>>
    /\ stdout = <<>> /\ stderr = <<>>
    /\ exception = "none" /\ exit_code = -1

\* the comparison on its own: both results drawn from every snapshot up to MaxRecs
InitCompare ==
    /\ AtCompare
    /\ then_res \in {None} \cup { Json(b) : b \in SeqsUpTo(StateRecords(SourceIds, Paths), MaxRecs) }
    /\ now_res \in {None} \cup { Json(b) : b \in SeqsUpTo(StateRecords(SourceIds, Paths), MaxRecs) }

NextCompare == Compare

SpecCompare == InitCompare /\ [][NextCompare]_vars

\* lists_equal on its own: one source seen in both snapshots, with any two paths
InitEq ==
    /\ AtCompare
    /\ \E a \in AllPaths : then_res = Json(<< [source_id |-> 1, path |-> a] >>)
    /\ \E b \in AllPaths : now_res = Json(<< [source_id |-> 1, path |-> b] >>)

NextEq == Compare

SpecEq == InitEq /\ [][NextEq]_vars

----------------------------------------------------------------------------
(* Vocabulary of the properties *)

\* ris_get_last_dump_datetime has run (line 173 has set now)
LookupRan == now # ""

\* ris_get_last_dump_datetime returned a dump time (line 174 has set then)
LookupOk == then # ""

\* the datetime.now() read by ris_get_last_dump_datetime falls on the day whose
\* midnight date.today() gave to ris_get_dump_times
SameDay == today <= clock /\ clock < today + 24

\* positions of the candidate list that hold the selected "then" timestamp
ThenPositions == { i \in 1 .. Len(times) : ris_format_timestamp(times[i]) = then }

HasNoData == then_res = None \/ now_res = None

BothHaveData == then_res.kind = "json" /\ now_res.kind = "json"

\* the target fails validation, in the words of the specification
Malformed(target) ==
    \/ ~Contains(target, "/")
    \/ Contains(target, ":") /\ ~IPv6NetworkParses(target)
    \/ ~Contains(target, ":") /\ ~IPv4NetworkParses(target)

ExpectedUrl(timestamp) ==
    "https://stat.ripe.net/data/bgp-state/data.json?sourceapp=compare-aspaths.py&resource="
        \o args.target \o "&timestamp=" \o timestamp

SourcesOf(res) == { res.data.bgp_state[i].source_id : i \in 1 .. Len(res.data.bgp_state) }

\* the path a mapping built from the result holds for a source: the last one listed
LastPath(res, sid) ==
    LET s == res.data.bgp_state
        last == CHOOSE i \in 1 .. Len(s) :
                    /\ s[i].source_id = sid
                    /\ \A j \in (i + 1) .. Len(s) : s[j].source_id # sid
    IN  s[last].path

\* sources present in both mappings whose two paths differ
Changed ==
    { sid \in SourcesOf(then_res) \cap SourcesOf(now_res) :
          LastPath(then_res, sid) # LastPath(now_res, sid) }

\* the two paths of the single source of a one-record snapshot pair
PathA == then_res.data.bgp_state[1].path

PathB == now_res.data.bgp_state[1].path

SameLengthSameValues(a, b) ==
    Len(a) = Len(b) /\ \A i \in 1 .. Len(a) : a[i] = b[i]

Occurrences(a, e) == Cardinality({ i \in 1 .. Len(a) : a[i] = e })

SameElementsOtherOrder(a, b) ==
    /\ Len(a) = Len(b)
    /\ \A e \in ASNs : Occurrences(a, e) = Occurrences(b, e)
    /\ \E i \in 1 .. Len(a) : a[i] # b[i]

DifferInOnePlace(a, b) ==
    /\ Len(a) = Len(b)
    /\ Cardinality({ i \in 1 .. Len(a) : a[i] # b[i] }) = 1

----------------------------------------------------------------------------
(* Properties *)

\* C1: whenever RIPEstat.get returned the no-data value for the then side, the
\* now side or both, the run ends normally: no exception, nothing printed for
\* that side, exit status 0.
C1_NoDataIsNotFatal ==
    (pc = "exited" /\ HasNoData) =>
        (exception = "none" /\ exit_code = 0 /\ stdout = <<>>)

\* C2: a target that has no '/' or does not parse in the address family chosen
\* by ':' never has an HTTP request issued for it, and once validated the run has
\* ended with the help on standard error and exit status 1; any request seen was
\* issued after validate_target returned true.
C2_ValidationBeforeNetwork ==
    /\ Malformed(args.target) => (requests = <<>> /\ inflight = <<>>)
    /\ (Malformed(args.target) /\ pc # "validate") =>
           (pc = "exited" /\ exit_code = 1 /\ stderr = <<"help">> /\ stdout = <<>>)
    /\ requests # <<>> => (pc # "validate" /\ ~Malformed(args.target))
    /\ pc = "validate" => (requests = <<>> /\ Running)

C2_Witness ==
    /\ pc = "exited" /\ exit_code = 1 /\ stderr = <<"help">>
    /\ Contains(args.target, "/") /\ Malformed(args.target)
    /\ requests = <<>>

\* C3: for every N >= 1 the selected "then" timestamp is a dump time (a multiple
\* of 8 hours from local midnight), not later than now, and at least N*8 hours
\* behind now.
C3_ThenAtLeastNIntervalsBehind ==
    (LookupOk /\ args.n >= 1) =>
        \A i \in ThenPositions :
            /\ (times[i] - today) % 8 = 0
            /\ times[i] <= clock
            /\ times[i] <= clock - args.n * 8

\* C4: the candidate list holds 3*N dump times 8 hours apart from today's local
\* midnight, target_dt is now - N*8 hours, and a successful lookup selects the
\* earliest candidate strictly after target_dt, never one equal to it.
C4_EarliestStrictlyAfter ==
    (LookupRan /\ args.n >= 0) =>
        /\ Len(times) = 3 * args.n
        /\ today % 24 = 0
        /\ \A k \in 1 .. Len(times) : times[k] = today + 8 * (k - 1)
        /\ dt = clock - args.n * 8
        /\ LookupOk =>
              /\ ThenPositions # {}
              /\ \A i \in ThenPositions :
                    /\ times[i] > dt
                    /\ \A j \in 1 .. Len(times) : times[j] > dt => times[i] <= times[j]

C4_Witness ==
    /\ LookupOk
    /\ \E j \in 1 .. Len(times) : times[j] = dt /\ then # ris_format_timestamp(times[j])

\* C5 as stated: with N large the candidates do not cover target_dt, the lookup
\* fails with an index error and the run ends before any HTTP request.
C5_LargeNExhausts ==
    (LookupRan /\ args.n = MaxN) =>
        (exception = "IndexError" /\ pc = "exited" /\ requests = <<>>)

\* C5 amended: for N >= 1 read within the day of the list's midnight some
\* candidate is strictly after target_dt and the lookup succeeds, however large N
\* is; the lookup fails exactly when no candidate is after target_dt, which takes
\* N <= 0 or a date change between the clock reads, and the run then ends with an
\* IndexError before any HTTP request.
C5_ExhaustionOnlyWhenListTooShort ==
    /\ (LookupRan /\ args.n >= 1 /\ SameDay) =>
           /\ \E j \in 1 .. Len(times) : times[j] > dt
           /\ exception # "IndexError"
           /\ LookupOk
    /\ LookupRan =>
           ((\A j \in 1 .. Len(times) : times[j] <= dt) <=> exception = "IndexError")
    /\ exception = "IndexError" =>
           /\ args.n <= 0 \/ ~SameDay
           /\ pc = "exited" /\ exit_code = 1
           /\ ~LookupOk
           /\ requests = <<>> /\ inflight = <<>>

C5_Witness ==
    /\ exception = "IndexError" /\ pc = "exited"
    /\ \A j \in 1 .. Len(times) : times[j] <= dt
    /\ requests = <<>>

\* C6: lists_equal(a, b) is true exactly when a and b have the same length and
\* the same value at every position: other lengths, one changed element or the
\* same elements in another order all compare unequal, and the report has a line
\* for the source exactly when its two paths are unequal.
C6_ExactOrderedEquality ==
    /\ lists_equal(PathA, PathB) <=> SameLengthSameValues(PathA, PathB)
    /\ Len(PathA) # Len(PathB) => ~lists_equal(PathA, PathB)
    /\ DifferInOnePlace(PathA, PathB) => ~lists_equal(PathA, PathB)
    /\ SameElementsOtherOrder(PathA, PathB) => ~lists_equal(PathA, PathB)
    /\ pc = "exited" => (stdout = <<>> <=> SameLengthSameValues(PathA, PathB))

C6_Witness ==
    /\ pc = "exited"
    /\ SameElementsOtherOrder(PathA, PathB)
    /\ Len(stdout) = 1

\* C7: for two snapshots with data the report holds exactly one line for each
\* source present in both mappings whose paths differ, the then path followed by
\* the now path; a source in only one snapshot gets no line, and with no
\* differing common source the output is empty.
C7_ReportContent ==
    (pc = "exited" /\ BothHaveData) =>
        /\ Len(stdout) = Cardinality(Changed)
        /\ \A sid \in Changed :
              \E k \in 1 .. Len(stdout) :
                  stdout[k] = FormatLine(LastPath(then_res, sid), LastPath(now_res, sid))
        /\ \A k \in 1 .. Len(stdout) :
              \E sid \in Changed :
                  stdout[k] = FormatLine(LastPath(then_res, sid), LastPath(now_res, sid))
        /\ Changed = {} => stdout = <<>>
        /\ exception = "none" /\ exit_code = 0

C7_Witness ==
    /\ pc = "exited" /\ BothHaveData
    /\ Len(stdout) = 1
    /\ SourcesOf(then_res) \ SourcesOf(now_res) # {}
    /\ Changed # {}

\* C8: a run with a valid target and a successful lookup issues exactly two GETs,
\* the then one first and the now one second, never more than one in flight, the
\* second only after the first returned, both for the validated target, none
\* repeated whatever the status, and the comparison only after both returned.
C8_RequestProtocol ==
    /\ Len(requests) <= 2 /\ Len(inflight) <= 1
    /\ requests # <<>> => (LookupOk /\ ~Malformed(args.target))
    /\ Len(requests) >= 1 => requests[1] = ExpectedUrl(then)
    /\ Len(requests) = 2 =>
           /\ requests[2] = ExpectedUrl(now)
           /\ then_res # Unset
    /\ inflight # <<>> => inflight[1] = requests[Len(requests)]
    /\ (pc = "compare" \/ (pc = "exited" /\ LookupOk)) =>
           /\ Len(requests) = 2 /\ inflight = <<>>
           /\ then_res # Unset /\ now_res # Unset
    /\ (stdout # <<>> \/ exception = "TypeError" \/ exit_code = 0) =>
           (pc = "exited" /\ LookupOk)

C8_Witness ==
    /\ pc = "exited" /\ LookupOk
    /\ then_res = None /\ now_res = None
    /\ Len(requests) = 2
    /\ requests[1] # requests[2]

\* C9: a run whose target passed validation and whose lookup succeeded ends with
\* exit status 0, printed lines or not; leaving aside the runs whose lookup
\* failed, exit status 1 is reached only by a target that failed validation.
C9_ValidRunExitsZero ==
    /\ (pc = "exited" /\ ~Malformed(args.target) /\ LookupOk) =>
           (exit_code = 0 /\ exception = "none")
    /\ (exit_code = 1 /\ exception # "IndexError") => Malformed(args.target)

====
